---- MODULE Spec2Model ----
(***************************************************************************)
(* Model of lemming's declarative GoBGP task (bgp/gobgp.go): the           *)
(* reconciliation state machine, the session-event callback and the RIB    *)
(* poller, all funnelled through updateAppliedState and its mutex.         *)
(***************************************************************************)
EXTENDS Integers, Sequences, FiniteSets, TLC

VARIABLES
    appliedStateMu,        \* holder of t.appliedStateMu: "free" or a task
    pc,                    \* position of each task
    bgpStarted,            \* t.bgpStarted
    currentConfig,         \* t.currentConfig (the Engine Config Snapshot)
    appliedBGP,            \* *t.appliedBGP
    appliedRoutingPolicy,  \* *t.appliedRoutingPolicy
    store,                 \* the central cache: what Replace has written
    sent,                  \* the Replace requests of the call holding the lock
    mutErr,                \* what each task's mutator returned
    ret,                   \* what each task's last updateAppliedState returned
    intended,              \* rootVal handed to the watch callback
    newConfig,             \* reconcile: newConfig
    todo,                  \* reconcile: engine calls InitialConfig/UpdateConfig still has to make
    calls,                 \* engine calls the current reconciliation pass has issued, with their outcome
    entry,                 \* reconcile: bgpStarted, currentConfig, appliedBGP as the pass found them
    repeat,                \* the snapshot delivered equals the one of the last pass, which succeeded
    lastGood,              \* snapshot recorded by the most recent successful start/update/stop
    uncommitted,           \* the applied tree holds changes of a mutator that failed
    left,                  \* the trees as the mutator of the call in progress left them
    ps,                    \* session event: p.GetPeer().State
    nlist,                 \* poller: neighbours the range loop has still to visit
    engineRib,             \* the engine's tables, as ListPath lists them
    engineDown,            \* the table types for which the engine's ListPath fails
    stopped,               \* stop has been called: t.bgpServer.Stop() has returned
    policy,                \* convertPolicyDefinition: its arguments and its result
    applyPolicy,           \* convertNeighborApplyPolicy: its argument and its result
    conv                   \* a translation function: the one called, its argument, its results

vars == <<appliedStateMu, pc, bgpStarted, currentConfig, appliedBGP,
          appliedRoutingPolicy, store, sent, mutErr, ret, intended, newConfig, todo,
          calls, entry, repeat, lastGood, uncommitted, left, ps, nlist, engineRib,
          engineDown, stopped, policy, applyPolicy, conv>>

-----------------------------------------------------------------------------
(* Bounds and input sets *)

\* peer-AS values an intended neighbour may carry: 1..MaxPeerAs
MaxPeerAs == 1

\* longest policy or statement name handed to the policy conversion
MaxNameLen == 2

\* most defined sets of one kind (community, prefix, AS-path) in the intended config
MaxSets == 2

Tasks == {"recon", "event", "poll"}
NeighAddrs == {"10.0.0.1", "10.0.0.2"}
NoErr == "nil"
NotCalled == "not called"

StartErr == "Failed to apply initial BGP configuration"
StopErr == "Failed to stop BGP service"
UpdateErr == "Failed to update BGP service"

ListenPort == 1179
ZapiURL == "unix:/zapi"

\* A Go pointer is a sequence of length 0 (nil) or 1 (the value pointed to).
NilPtr == <<>>
Ptr(v) == <<v>>
IsNil(p) == p = <<>>

EmptyMap == [a \in {} |-> 0]

\* every order in which a Go range loop may visit the keys of a map
Orders(S) ==
    {s \in [1..Cardinality(S) -> S] : \A i, j \in 1..Cardinality(S) : s[i] = s[j] => i = j}

NeighMaps == UNION {[D -> [peerAs : 1..MaxPeerAs, port : {0}]] : D \in SUBSET NeighAddrs}

\* the intended-config snapshots the watch may deliver
IntendedConfigs ==
    [as : {NilPtr, Ptr(65001)}, routerId : {NilPtr, Ptr("1.1.1.1")}, neighbor : NeighMaps]

\* the intended BGP containers handed to the config translation: router-id unset,
\* not a loopback, a loopback, or not an address; neighbours with and without a port
RouterIds == {"1.1.1.1", "127.0.0.1", "127.1.2.3", "::1", "lo0"}
TranslateConfigs ==
    [as : {NilPtr, Ptr(65001)},
     routerId : {NilPtr} \cup {Ptr(r) : r \in RouterIds},
     neighbor : UNION {[D -> [peerAs : 1..MaxPeerAs, port : {0, 179}]] : D \in SUBSET NeighAddrs}]

\* ps.SessionState.String(): the engine's session states, and "7", the name of a
\* value outside the engine's enumeration
EngineSessionStates ==
    {"UNKNOWN", "IDLE", "CONNECT", "ACTIVE", "OPENSENT", "OPENCONFIRM", "ESTABLISHED", "7"}

-----------------------------------------------------------------------------
(* Config translation *)

\* netip.ParseAddr on the router-ids of the model: the address as its four bytes
\* or its eight groups, or nil when the text is not an IP address
ParseAddr(s) ==
    CASE s = "1.1.1.1" -> Ptr(<<1, 1, 1, 1>>)
      [] s = "127.0.0.1" -> Ptr(<<127, 0, 0, 1>>)
      [] s = "127.1.2.3" -> Ptr(<<127, 1, 2, 3>>)
      [] s = "::1" -> Ptr(<<0, 0, 0, 0, 0, 0, 0, 1>>)
      [] OTHER -> NilPtr

\* mutation: every address that parses is taken as the local address
IsLoopbackAny(ip) == TRUE

\* netip.Addr.IsLoopback: 127.0.0.0/8 or ::1
IsLoopback(ip) == IF Len(ip) = 4 THEN ip[1] = 127 ELSE ip = <<0, 0, 0, 0, 0, 0, 0, 1>>

\* netip.Addr.String, for an IPv4 address and for an IPv6 address whose first seven
\* groups are zero and whose last is below 10
AddrString(ip) ==
    IF Len(ip) = 4
    THEN ToString(ip[1]) \o "." \o ToString(ip[2]) \o "." \o ToString(ip[3]) \o "."
            \o ToString(ip[4])
    ELSE "::" \o ToString(ip[8])

\* &bgpconfig.BgpConfigSet{}
EmptyConfig ==
    [global |-> [as |-> 0, routerId |-> "", port |-> 0],
     neighbors |-> <<>>,
     zebra |-> [enabled |-> FALSE, url |-> ""]]

GetAs(g) == IF IsNil(g.as) THEN 0 ELSE g.as[1]
GetRouterId(g) == IF IsNil(g.routerId) THEN "" ELSE g.routerId[1]

\* order: the order in which the range over bgpoc.Neighbor visits the map
intendedToGoBGP(bgpoc, order, zapiURL, listenPort) ==
    LET localAddr == ParseAddr(GetRouterId(bgpoc))
        localAddress == IF ~IsNil(localAddr) /\ IsLoopback(localAddr[1])
                        THEN AddrString(localAddr[1]) ELSE ""
    IN [global |-> [as |-> GetAs(bgpoc), routerId |-> GetRouterId(bgpoc), port |-> listenPort],
        neighbors |->
            [i \in 1..Len(order) |->
                [config |-> [peerAs |-> bgpoc.neighbor[order[i]].peerAs,
                             neighborAddress |-> order[i]],
                 state |-> [peerAs |-> bgpoc.neighbor[order[i]].peerAs,
                            neighborAddress |-> order[i]],
                 transport |-> [localAddress |-> localAddress,
                                remotePort |-> bgpoc.neighbor[order[i]].port]]],
        zebra |-> [enabled |-> TRUE, url |-> zapiURL]]

-----------------------------------------------------------------------------
(* The applied-state tree *)

\* oc.NetworkInstance_Protocol_Bgp{} after PopulateDefaults()
DefaultBgp ==
    [global |-> [as |-> NilPtr, routerId |-> NilPtr],
     neighbor |-> EmptyMap,
     rib |-> NilPtr]

DefaultRoutingPolicy == "routing-policy-defaults"

NewNeighbor == [peerAs |-> 0, sessionState |-> "UNSET"]

MapPut(m, k, v) == [a \in DOMAIN m \cup {k} |-> IF a = k THEN v ELSE m[a]]
MapDel(m, k) == [a \in DOMAIN m \ {k} |-> m[a]]

\* t.appliedBGP.GetOrCreateNeighbor(addr)
GetOrCreateNeighbor(bgp, addr) ==
    IF addr \in DOMAIN bgp.neighbor
    THEN bgp
    ELSE [bgp EXCEPT !.neighbor = MapPut(bgp.neighbor, addr, NewNeighbor)]

\* GetOrCreateRib().GetOrCreateAfiSafi(IPV4_UNICAST).GetOrCreateIpv4Unicast()
EmptyIpv4Unicast == [locRib |-> NilPtr, neighbor |-> EmptyMap]
GetOrCreateIpv4Unicast(bgp) == IF IsNil(bgp.rib) THEN EmptyIpv4Unicast ELSE bgp.rib[1]

NewRibNeighbor ==
    [adjRibInPre |-> {}, adjRibInPost |-> {}, adjRibOutPre |-> {}, adjRibOutPost |-> {}]

\* the (route, path) index pairs of a listing
PathIndexes(routes) ==
    UNION {{<<i, j>> : j \in 1..Len(routes[i].paths)} : i \in 1..Len(routes)}

PathAt(routes, ij) == routes[ij[1]].paths[ij[2]]

\* mutation: the local table is not emptied before it is filled
FoldLocRibAccumulates(v4uni, routes) ==
    [v4uni EXCEPT !.locRib =
        Ptr((IF IsNil(v4uni.locRib) THEN {} ELSE v4uni.locRib[1]) \cup
            {<<routes[ij[1]].prefix,
               IF PathAt(routes, ij).sourceId = "" THEN "UNSET" ELSE PathAt(routes, ij).sourceId,
               ij[2] - 1>> : ij \in PathIndexes(routes)})]

\* the callback handed to queryTable for the local table: v4uni.LocRib = nil, then
\* GetOrCreateRoute(route.Prefix, origin, uint32(j)) for every path
FoldLocRib(v4uni, routes) ==
    [v4uni EXCEPT !.locRib =
        Ptr({<<routes[ij[1]].prefix,
               IF PathAt(routes, ij).sourceId = "" THEN "UNSET" ELSE PathAt(routes, ij).sourceId,
               ij[2] - 1>> : ij \in PathIndexes(routes)})]

\* the callback handed to queryTable for a neighbour's adj-rib-in
FoldAdjRibIn(v4uni, routes) ==
    LET touched == {PathAt(routes, ij).neighborIp : ij \in PathIndexes(routes)}
        old(a) == IF a \in DOMAIN v4uni.neighbor THEN v4uni.neighbor[a] ELSE NewRibNeighbor
        of(a) == {ij \in PathIndexes(routes) : PathAt(routes, ij).neighborIp = a}
    IN [v4uni EXCEPT !.neighbor =
            [a \in DOMAIN v4uni.neighbor \cup touched |->
                [old(a) EXCEPT
                    !.adjRibInPre = @ \cup {<<routes[ij[1]].prefix, ij[2] - 1>> : ij \in of(a)},
                    !.adjRibInPost = @ \cup {<<routes[ij[1]].prefix, ij[2] - 1>> :
                        ij \in {x \in of(a) : ~PathAt(routes, x).filtered}}]]]

\* the callback handed to queryTable for a neighbour's adj-rib-out
FoldAdjRibOut(v4uni, neigh, routes) ==
    IF PathIndexes(routes) = {}
    THEN v4uni
    ELSE LET old == IF neigh \in DOMAIN v4uni.neighbor THEN v4uni.neighbor[neigh]
                    ELSE NewRibNeighbor
         IN [v4uni EXCEPT !.neighbor = MapPut(v4uni.neighbor, neigh,
                [old EXCEPT
                    !.adjRibOutPre = @ \cup {<<routes[ij[1]].prefix, ij[2] - 1>> :
                        ij \in PathIndexes(routes)},
                    !.adjRibOutPost = @ \cup {<<routes[ij[1]].prefix, ij[2] - 1>> :
                        ij \in {x \in PathIndexes(routes) : ~PathAt(routes, x).filtered}}])]

\* what ListPath lists for a table of the engine
TableOf(tableType, neigh) ==
    IF tableType = "LOCAL" THEN engineRib.local
    ELSE IF neigh \in DOMAIN engineRib[tableType] THEN engineRib[tableType][neigh]
    ELSE <<>>

-----------------------------------------------------------------------------
(* updateAppliedState: the single entry point *)

NoneSent == [bgp |-> NilPtr, rp |-> NilPtr]

\* the two sub-trees updateAppliedState publishes
Trees(bgp, rp) == Ptr([bgp |-> bgp, rp |-> rp])

\* gnmiclient.Replace(path, appliedState): the store is modelled at its boundary,
\* as the last tree Replace was asked to write at each path
updateAppliedStateHelper(st, path, tree) == [st EXCEPT ![path] = Ptr(tree)]

\* mutation: the error check after the mutator is missing
AfterMutatorPublishes(err) == "pubBGP"

\* if err := f(); err != nil { return err }: where the call goes after the mutator
AfterMutator(err) == IF err # NoErr THEN "unlock" ELSE "pubBGP"

\* mutation: the mutator runs without waiting for the lock
LockNoWait(t) ==
    /\ pc[t] = "lock"
    /\ appliedStateMu' = t
    /\ pc' = [pc EXCEPT ![t] = "mut"]
    /\ mutErr' = [mutErr EXCEPT ![t] = NoErr]
    /\ sent' = NoneSent
    /\ left' = NilPtr
    /\ UNCHANGED <<bgpStarted, currentConfig, appliedBGP, appliedRoutingPolicy, store, ret,
                   intended, newConfig, todo, calls, entry, repeat, lastGood,
                   uncommitted, ps, nlist, engineRib, engineDown, stopped, policy,
                   applyPolicy, conv>>

\* t.appliedStateMu.Lock()
Lock(t) ==
    /\ pc[t] = "lock"
    /\ appliedStateMu = "free"
    /\ appliedStateMu' = t
    /\ pc' = [pc EXCEPT ![t] = "mut"]
    /\ mutErr' = [mutErr EXCEPT ![t] = NoErr]
    /\ sent' = NoneSent
    /\ left' = NilPtr
    /\ UNCHANGED <<bgpStarted, currentConfig, appliedBGP, appliedRoutingPolicy, store, ret,
                   intended, newConfig, todo, calls, entry, repeat, lastGood,
                   uncommitted, ps, nlist, engineRib, engineDown, stopped, policy,
                   applyPolicy, conv>>

\* updateAppliedStateHelper(t.yclient, BGPStatePath, t.appliedBGP)
PublishBGP(t) ==
    /\ pc[t] = "pubBGP"
    /\ store' = updateAppliedStateHelper(store, "bgp", appliedBGP)
    /\ sent' = [sent EXCEPT !.bgp = Ptr(appliedBGP)]
    /\ pc' = [pc EXCEPT ![t] = "pubRP"]
    /\ UNCHANGED <<appliedStateMu, bgpStarted, currentConfig, appliedBGP, appliedRoutingPolicy,
                   mutErr, ret, intended, newConfig, todo, calls, entry, repeat,
                   lastGood, uncommitted, left, ps, nlist, engineRib, engineDown,
                   stopped, policy, applyPolicy, conv>>

\* mutation: the routing-policy tree is not published
PublishRPSkipped(t) ==
    /\ pc[t] = "pubRP"
    /\ pc' = [pc EXCEPT ![t] = "unlock"]
    /\ UNCHANGED <<appliedStateMu, bgpStarted, currentConfig, appliedBGP, appliedRoutingPolicy,
                   store, sent, mutErr, ret, intended, newConfig, todo, calls, entry,
                   repeat, lastGood, uncommitted, left, ps, nlist, engineRib,
                   engineDown, stopped, policy, applyPolicy, conv>>

\* updateAppliedStateHelper(t.yclient, RoutingPolicyStatePath, t.appliedRoutingPolicy)
PublishRP(t) ==
    /\ pc[t] = "pubRP"
    /\ store' = updateAppliedStateHelper(store, "rp", appliedRoutingPolicy)
    /\ sent' = [sent EXCEPT !.rp = Ptr(appliedRoutingPolicy)]
    /\ pc' = [pc EXCEPT ![t] = "unlock"]
    /\ UNCHANGED <<appliedStateMu, bgpStarted, currentConfig, appliedBGP, appliedRoutingPolicy,
                   mutErr, ret, intended, newConfig, todo, calls, entry, repeat,
                   lastGood, uncommitted, left, ps, nlist, engineRib, engineDown,
                   stopped, policy, applyPolicy, conv>>

NoEntry == [started |-> FALSE, config |-> NilPtr, bgp |-> DefaultBgp]

\* mutation: the error path returns without unlocking
UnlockOnSuccessOnly(t) ==
    /\ pc[t] = "unlock"
    /\ appliedStateMu' = IF mutErr[t] = NoErr THEN "free" ELSE appliedStateMu
    /\ ret' = [ret EXCEPT ![t] = mutErr[t]]
    /\ pc' = [pc EXCEPT ![t] = "idle"]
    /\ sent' = NoneSent
    /\ left' = NilPtr
    /\ IF t = "recon"
       THEN /\ entry' = NoEntry
            /\ newConfig' = EmptyConfig
            /\ calls' = <<>>
       ELSE UNCHANGED <<entry, newConfig, calls>>
    /\ UNCHANGED <<bgpStarted, currentConfig, appliedBGP, appliedRoutingPolicy, store, mutErr,
                   intended, todo, repeat, lastGood, uncommitted, ps, nlist, engineRib,
                   engineDown, stopped, policy, applyPolicy, conv>>

\* defer t.appliedStateMu.Unlock(), and the return of updateAppliedState
Unlock(t) ==
    /\ pc[t] = "unlock"
    /\ appliedStateMu' = "free"
    /\ ret' = [ret EXCEPT ![t] = mutErr[t]]
    /\ pc' = [pc EXCEPT ![t] = "idle"]
    /\ sent' = NoneSent
    /\ left' = NilPtr
    /\ IF t = "recon"
       THEN /\ entry' = NoEntry
            /\ newConfig' = EmptyConfig
            /\ calls' = <<>>
       ELSE UNCHANGED <<entry, newConfig, calls>>
    /\ UNCHANGED <<bgpStarted, currentConfig, appliedBGP, appliedRoutingPolicy, store, mutErr,
                   intended, todo, repeat, lastGood, uncommitted, ps, nlist, engineRib,
                   engineDown, stopped, policy, applyPolicy, conv>>

-----------------------------------------------------------------------------
(* Session events: the WatchEvent callback *)

\* names of oc.E_Bgp_Neighbor_SessionState in its generated enum table
LocalSessionStates == {"ACTIVE", "CONNECT", "ESTABLISHED", "IDLE", "OPENCONFIRM", "OPENSENT"}

\* mutation: UNKNOWN is looked up by name like every other state
SessionStateMutatorByName(bgp, state) ==
    LET b == GetOrCreateNeighbor(bgp, state.neighborAddress)
    IN IF state.sessionState \in LocalSessionStates
       THEN [b EXCEPT !.neighbor[state.neighborAddress].sessionState = state.sessionState]
       ELSE b

\* the mutator of the WatchEvent callback
SessionStateMutator(bgp, state) ==
    LET b == GetOrCreateNeighbor(bgp, state.neighborAddress)
    IN IF state.sessionState = "UNKNOWN"
       THEN [b EXCEPT !.neighbor[state.neighborAddress].sessionState = "UNSET"]
       ELSE IF state.sessionState \in LocalSessionStates
       THEN [b EXCEPT !.neighbor[state.neighborAddress].sessionState = state.sessionState]
       ELSE b

NoPeerState == [neighborAddress |-> "", sessionState |-> "UNKNOWN"]

\* the engine delivers a peer event of type STATE
PeerEvent(addr, st) ==
    /\ pc["event"] = "idle"
    /\ ps' = [neighborAddress |-> addr, sessionState |-> st]
    /\ pc' = [pc EXCEPT !["event"] = "lock"]
    /\ UNCHANGED <<appliedStateMu, bgpStarted, currentConfig, appliedBGP, appliedRoutingPolicy,
                   store, sent, mutErr, ret, intended, newConfig, todo, calls, entry,
                   repeat, lastGood, uncommitted, left, nlist, engineRib, engineDown,
                   stopped, policy, applyPolicy, conv>>

PeerEventMutate ==
    /\ pc["event"] = "mut"
    /\ appliedBGP' = SessionStateMutator(appliedBGP, ps)
    /\ left' = Trees(appliedBGP', appliedRoutingPolicy)
    /\ ps' = NoPeerState
    /\ mutErr' = [mutErr EXCEPT !["event"] = NoErr]
    /\ pc' = [pc EXCEPT !["event"] = AfterMutator(NoErr)]
    /\ UNCHANGED <<appliedStateMu, bgpStarted, currentConfig, appliedRoutingPolicy, store,
                   sent, ret, intended, newConfig, todo, calls, entry, repeat, lastGood,
                   uncommitted, nlist, engineRib, engineDown, stopped, policy,
                   applyPolicy, conv>>

\* stop: t.bgpServer.Stop(); return nil. It signals neither the watch nor the
\* poller goroutine, whose ticker keeps firing.
Stop ==
    /\ ~stopped
    /\ stopped' = TRUE
    /\ UNCHANGED <<appliedStateMu, pc, bgpStarted, currentConfig, appliedBGP,
                   appliedRoutingPolicy, store, sent, mutErr, ret, intended, newConfig,
                   todo, calls, entry, repeat, lastGood, uncommitted, left, ps, nlist,
                   engineRib, engineDown, policy, applyPolicy, conv>>

-----------------------------------------------------------------------------
(* The RIB poller *)

\* mutation: a tick also re-runs a reconciliation pass that failed
TickRetries ==
    /\ pc["poll"] = "idle"
    /\ pc' = [pc EXCEPT !["poll"] = "lock",
                        !["recon"] = IF @ = "idle" /\ ret["recon"] \notin {NoErr, NotCalled}
                                     THEN "lock" ELSE @]
    /\ UNCHANGED <<appliedStateMu, bgpStarted, currentConfig, appliedBGP, appliedRoutingPolicy,
                   store, sent, mutErr, ret, intended, newConfig, todo, calls, entry,
                   repeat, lastGood, uncommitted, left, ps, nlist, engineRib,
                   engineDown, stopped, policy, applyPolicy, conv>>

\* tick.C fires; the global-table ListPath only logs
Tick ==
    /\ pc["poll"] = "idle"
    /\ pc' = [pc EXCEPT !["poll"] = "lock"]
    /\ UNCHANGED <<appliedStateMu, bgpStarted, currentConfig, appliedBGP, appliedRoutingPolicy,
                   store, sent, mutErr, ret, intended, newConfig, todo, calls, entry,
                   repeat, lastGood, uncommitted, left, ps, nlist, engineRib,
                   engineDown, stopped, policy, applyPolicy, conv>>

\* mutation: a failed query clears what the tree held
queryTableClears(v4uni, ok, folded) == IF ok THEN folded ELSE EmptyIpv4Unicast

\* t.queryTable: f(routes) when ListPath succeeds, nothing otherwise
queryTable(v4uni, ok, folded) == IF ok THEN folded ELSE v4uni

\* v4uni := ...GetOrCreateIpv4Unicast(); t.queryTable("", "local", ...)
PollLocal(ok) ==
    /\ pc["poll"] = "mut"
    /\ LET v4uni == GetOrCreateIpv4Unicast(appliedBGP)
       IN appliedBGP' = [appliedBGP EXCEPT !.rib =
                Ptr(queryTable(v4uni, ok, FoldLocRib(v4uni, TableOf("LOCAL", ""))))]
    /\ \E order \in Orders(DOMAIN appliedBGP.neighbor) : nlist' = order
    /\ pc' = [pc EXCEPT !["poll"] = "adjin"]
    /\ UNCHANGED <<appliedStateMu, bgpStarted, currentConfig, appliedRoutingPolicy, store,
                   sent, mutErr, ret, intended, newConfig, todo, calls, entry, repeat,
                   lastGood, uncommitted, left, ps, engineRib, engineDown, stopped,
                   policy, applyPolicy, conv>>

\* t.queryTable(neigh, "adj-rib-in", api.TableType_ADJ_IN, ...)
PollAdjIn(ok) ==
    /\ pc["poll"] = "adjin"
    /\ nlist # <<>>
    /\ LET v4uni == GetOrCreateIpv4Unicast(appliedBGP)
       IN appliedBGP' = [appliedBGP EXCEPT !.rib =
                Ptr(queryTable(v4uni, ok, FoldAdjRibIn(v4uni, TableOf("adjIn", Head(nlist)))))]
    /\ pc' = [pc EXCEPT !["poll"] = "adjout"]
    /\ UNCHANGED <<appliedStateMu, bgpStarted, currentConfig, appliedRoutingPolicy, store,
                   sent, mutErr, ret, intended, newConfig, todo, calls, entry, repeat,
                   lastGood, uncommitted, left, ps, nlist, engineRib, engineDown,
                   stopped, policy, applyPolicy, conv>>

\* t.queryTable(neigh, "adj-rib-out", api.TableType_ADJ_OUT, ...)
PollAdjOut(ok) ==
    /\ pc["poll"] = "adjout"
    /\ LET v4uni == GetOrCreateIpv4Unicast(appliedBGP)
       IN appliedBGP' = [appliedBGP EXCEPT !.rib =
                Ptr(queryTable(v4uni, ok,
                        FoldAdjRibOut(v4uni, Head(nlist), TableOf("adjOut", Head(nlist)))))]
    /\ nlist' = Tail(nlist)
    /\ pc' = [pc EXCEPT !["poll"] = "adjin"]
    /\ UNCHANGED <<appliedStateMu, bgpStarted, currentConfig, appliedRoutingPolicy, store,
                   sent, mutErr, ret, intended, newConfig, todo, calls, entry, repeat,
                   lastGood, uncommitted, left, ps, engineRib, engineDown, stopped,
                   policy, applyPolicy, conv>>

\* the range over t.appliedBGP.Neighbor is exhausted: return nil
PollDone ==
    /\ pc["poll"] = "adjin"
    /\ nlist = <<>>
    /\ left' = Trees(appliedBGP, appliedRoutingPolicy)
    /\ mutErr' = [mutErr EXCEPT !["poll"] = NoErr]
    /\ pc' = [pc EXCEPT !["poll"] = AfterMutator(NoErr)]
    /\ UNCHANGED <<appliedStateMu, bgpStarted, currentConfig, appliedBGP, appliedRoutingPolicy,
                   store, sent, ret, intended, newConfig, todo, calls, entry, repeat,
                   lastGood, uncommitted, ps, nlist, engineRib, engineDown, stopped,
                   policy, applyPolicy, conv>>

\* the table types queryTable is called with
RibTables == {"LOCAL", "adjIn", "adjOut"}

\* the neighbour whose adjacency tables the engine fills
RibNeighbor == "10.0.0.1"

\* what the engine may list for a table of RibNeighbor: nothing, or the one prefix
\* with a path that the policy has or has not filtered
AdjListings ==
    {<<>>} \cup
    {<<[prefix |-> "10.33.0.0/16",
        paths |-> <<[sourceId |-> RibNeighbor, neighborIp |-> RibNeighbor,
                     filtered |-> f]>>]>> : f \in BOOLEAN}

EngineRibs ==
    [local : {<<>>, <<[prefix |-> "10.33.0.0/16",
                       paths |-> <<[sourceId |-> "", neighborIp |-> "",
                                    filtered |-> FALSE]>>]>>},
     adjIn : [{RibNeighbor} -> AdjListings],
     adjOut : [{RibNeighbor} -> AdjListings]]

\* what the engine may list for its local table: no route, one route with a local
\* or a learned path or both, two routes
LocalListings ==
    LET path(src) == [sourceId |-> src, neighborIp |-> src, filtered |-> FALSE]
        route(p, paths) == [prefix |-> p, paths |-> paths]
    IN {<<>>,
        <<route("10.33.0.0/16", <<path("")>>)>>,
        <<route("10.33.0.0/16", <<path(RibNeighbor)>>)>>,
        <<route("10.33.0.0/16", <<path(""), path(RibNeighbor)>>)>>,
        <<route("10.34.0.0/16", <<path(RibNeighbor)>>)>>,
        <<route("10.33.0.0/16", <<path(RibNeighbor)>>), route("10.34.0.0/16", <<path("")>>)>>}

\* between two ticks the engine's tables change and its ListPath starts or stops
\* failing for some table types
EngineChange(rib, down) ==
    /\ pc["poll"] = "idle"
    /\ engineRib' = rib
    /\ engineDown' = down
    /\ UNCHANGED <<appliedStateMu, pc, bgpStarted, currentConfig, appliedBGP,
                   appliedRoutingPolicy, store, sent, mutErr, ret, intended, newConfig,
                   todo, calls, entry, repeat, lastGood, uncommitted, left, ps, nlist,
                   stopped, policy, applyPolicy, conv>>

-----------------------------------------------------------------------------
(* InitialConfig and UpdateConfig: the engine calls of one pass *)

Range(seq) == {seq[i] : i \in DOMAIN seq}
AddrsOf(neighbors) == {n.config.neighborAddress : n \in Range(neighbors)}
NeighborsOf(c) == IF IsNil(c) THEN <<>> ELSE c[1].neighbors

CallsFor(op, neighbors) == [i \in DOMAIN neighbors |-> [op |-> op, n |-> neighbors[i]]]

NoNeighbor ==
    [config |-> [peerAs |-> 0, neighborAddress |-> ""],
     state |-> [peerAs |-> 0, neighborAddress |-> ""],
     transport |-> [localAddress |-> "", remotePort |-> 0]]

\* InitialConfig: start the engine with the global config, then add every neighbour
InitialConfigCalls(nc) ==
    <<[op |-> "StartBgp", n |-> NoNeighbor]>> \o CallsFor("AddPeer", nc.neighbors)

\* UpdateConfig: diff the previous snapshot against the new config by neighbour
\* address; one engine call per added, deleted and modified neighbour
UpdateConfigCalls(c, nc) ==
    LET cur == NeighborsOf(c)
        added == SelectSeq(nc.neighbors,
                    LAMBDA n : n.config.neighborAddress \notin AddrsOf(cur))
        deleted == SelectSeq(cur,
                    LAMBDA n : n.config.neighborAddress \notin AddrsOf(nc.neighbors))
        updated == SelectSeq(nc.neighbors,
                    LAMBDA n : /\ n.config.neighborAddress \in AddrsOf(cur)
                               /\ n \notin Range(cur))
    IN CallsFor("AddPeer", added) \o CallsFor("DeletePeer", deleted)
         \o CallsFor("UpdatePeer", updated)

\* what a successful engine call leaves in the applied tree
ApplyCall(bgp, call, nc) ==
    LET addr == call.n.config.neighborAddress
    IN CASE call.op = "StartBgp" ->
              [bgp EXCEPT !.global = [as |-> Ptr(nc.global.as),
                                      routerId |-> Ptr(nc.global.routerId)]]
         [] call.op = "DeletePeer" ->
              [bgp EXCEPT !.neighbor = MapDel(bgp.neighbor, addr)]
         [] OTHER ->
              [GetOrCreateNeighbor(bgp, addr) EXCEPT
                  !.neighbor[addr].peerAs = call.n.config.peerAs]

\* what InitialConfig / UpdateConfig hand back with an error: no snapshot
FailedResult == NilPtr

\* mutation: reconcile swallows the helper's error
ReconcileErrSwallowed(started) == NoErr

\* the error reconcile returns when InitialConfig (not started) or UpdateConfig fails
ReconcileErr(started) == IF started THEN UpdateErr ELSE StartErr

\* mutation: the reset keeps the RIB of the previous run
StoppedBgpKeepsRib(bgp) == [DefaultBgp EXCEPT !.rib = bgp.rib]

\* *t.appliedBGP = oc.NetworkInstance_Protocol_Bgp{}; t.appliedBGP.PopulateDefaults()
StoppedBgp(bgp) == DefaultBgp

-----------------------------------------------------------------------------
(* The intended-config watch and reconcile *)

\* mutation: the watch ends with the first pass that fails
DeliverUntilError(cfg) ==
    /\ pc["recon"] = "idle"
    /\ ret["recon"] \in {NotCalled, NoErr}
    /\ intended' = cfg
    /\ repeat' = (cfg = intended /\ ret["recon"] = NoErr)
    /\ pc' = [pc EXCEPT !["recon"] = "lock"]
    /\ UNCHANGED <<appliedStateMu, bgpStarted, currentConfig, appliedBGP, appliedRoutingPolicy,
                   store, sent, mutErr, ret, newConfig, todo, calls, entry, lastGood,
                   uncommitted, left, ps, nlist, engineRib, engineDown, stopped, policy,
                   applyPolicy, conv>>

\* the watch callback is handed a snapshot: t.updateAppliedState(reconcile(rootVal));
\* it returns ygnmi.Continue whatever updateAppliedState returned
Deliver(cfg) ==
    /\ pc["recon"] = "idle"
    /\ intended' = cfg
    /\ repeat' = (cfg = intended /\ ret["recon"] = NoErr)
    /\ pc' = [pc EXCEPT !["recon"] = "lock"]
    /\ UNCHANGED <<appliedStateMu, bgpStarted, currentConfig, appliedBGP, appliedRoutingPolicy,
                   store, sent, mutErr, ret, newConfig, todo, calls, entry, lastGood,
                   uncommitted, left, ps, nlist, engineRib, engineDown, stopped, policy,
                   applyPolicy, conv>>

\* mutation: BGP is started as soon as either field is set
ShouldStartEitherSet(bgpoc) == ~IsNil(bgpoc.as) \/ ~IsNil(bgpoc.routerId)

bgpShouldStart(bgpoc) == ~IsNil(bgpoc.as) /\ ~IsNil(bgpoc.routerId)

Entered == [started |-> bgpStarted, config |-> currentConfig, bgp |-> appliedBGP]

\* case bgpShouldStart && !t.bgpStarted: InitialConfig begins
ReconcileStart ==
    /\ pc["recon"] = "mut"
    /\ bgpShouldStart(intended) /\ ~bgpStarted
    /\ \E order \in Orders(DOMAIN intended.neighbor) :
          LET nc == intendedToGoBGP(intended, order, ZapiURL, ListenPort)
          IN /\ newConfig' = nc
             /\ todo' = InitialConfigCalls(nc)
    /\ entry' = Entered
    /\ calls' = <<>>
    /\ pc' = [pc EXCEPT !["recon"] = "calls"]
    /\ UNCHANGED <<appliedStateMu, bgpStarted, currentConfig, appliedBGP, appliedRoutingPolicy,
                   store, sent, mutErr, ret, intended, repeat, lastGood, uncommitted,
                   left, ps, nlist, engineRib, engineDown, stopped, policy, applyPolicy,
                   conv>>

\* case t.bgpStarted: UpdateConfig begins
ReconcileUpdate ==
    /\ pc["recon"] = "mut"
    /\ bgpShouldStart(intended) /\ bgpStarted
    /\ \E order \in Orders(DOMAIN intended.neighbor) :
          LET nc == intendedToGoBGP(intended, order, ZapiURL, ListenPort)
          IN /\ newConfig' = nc
             /\ todo' = UpdateConfigCalls(currentConfig, nc)
    /\ entry' = Entered
    /\ calls' = <<>>
    /\ pc' = [pc EXCEPT !["recon"] = "calls"]
    /\ UNCHANGED <<appliedStateMu, bgpStarted, currentConfig, appliedBGP, appliedRoutingPolicy,
                   store, sent, mutErr, ret, intended, repeat, lastGood, uncommitted,
                   left, ps, nlist, engineRib, engineDown, stopped, policy, applyPolicy,
                   conv>>

\* one engine call of InitialConfig / UpdateConfig; on failure the helper returns,
\* and reconcile has assigned t.currentConfig before it looks at err
EngineCall(ok) ==
    /\ pc["recon"] = "calls"
    /\ todo # <<>>
    /\ calls' = Append(calls, [op |-> Head(todo).op, ok |-> ok])
    /\ IF ok
          THEN /\ appliedBGP' = ApplyCall(appliedBGP, Head(todo), newConfig)
               /\ todo' = Tail(todo)
               /\ UNCHANGED <<currentConfig, mutErr, pc, uncommitted>>
          ELSE LET err == ReconcileErr(entry.started)
               IN /\ currentConfig' = FailedResult
                  /\ mutErr' = [mutErr EXCEPT !["recon"] = err]
                  /\ pc' = [pc EXCEPT !["recon"] = AfterMutator(err)]
                  /\ uncommitted' = (uncommitted \/ appliedBGP # entry.bgp)
                  /\ todo' = <<>>
                  /\ UNCHANGED appliedBGP
    /\ UNCHANGED <<appliedStateMu, bgpStarted, appliedRoutingPolicy, store, sent, ret,
                   intended, newConfig, entry, repeat, lastGood, left, ps, nlist,
                   engineRib, engineDown, stopped, policy, applyPolicy, conv>>

\* InitialConfig / UpdateConfig returned (newConfig, nil)
ReconcileDone ==
    /\ pc["recon"] = "calls"
    /\ todo = <<>>
    /\ left' = Trees(appliedBGP, appliedRoutingPolicy)
    /\ currentConfig' = Ptr(newConfig)
    /\ bgpStarted' = TRUE
    /\ lastGood' = Ptr(newConfig)
    /\ uncommitted' = FALSE
    /\ mutErr' = [mutErr EXCEPT !["recon"] = NoErr]
    /\ pc' = [pc EXCEPT !["recon"] = AfterMutator(NoErr)]
    /\ UNCHANGED <<appliedStateMu, appliedBGP, appliedRoutingPolicy, store, sent, ret,
                   intended, newConfig, todo, calls, entry, repeat, ps, nlist,
                   engineRib, engineDown, stopped, policy, applyPolicy, conv>>

\* mutation: the state is flipped before the stop's error is looked at
ReconcileStopFlipsFirst(ok) ==
    /\ pc["recon"] = "mut"
    /\ ~bgpShouldStart(intended) /\ bgpStarted
    /\ entry' = Entered
    /\ calls' = <<[op |-> "StopBgp", ok |-> ok]>>
    /\ bgpStarted' = FALSE
    /\ IF ok
          THEN /\ currentConfig' = Ptr(EmptyConfig)
               /\ appliedBGP' = StoppedBgp(appliedBGP)
               /\ left' = Trees(appliedBGP', appliedRoutingPolicy)
               /\ lastGood' = Ptr(EmptyConfig)
               /\ uncommitted' = FALSE
               /\ mutErr' = [mutErr EXCEPT !["recon"] = NoErr]
               /\ pc' = [pc EXCEPT !["recon"] = AfterMutator(NoErr)]
          ELSE /\ mutErr' = [mutErr EXCEPT !["recon"] = StopErr]
               /\ pc' = [pc EXCEPT !["recon"] = AfterMutator(StopErr)]
               /\ UNCHANGED <<currentConfig, appliedBGP, lastGood, uncommitted, left>>
    /\ UNCHANGED <<appliedStateMu, appliedRoutingPolicy, store, sent, ret, intended, newConfig,
                   todo, repeat, ps, nlist, engineRib, engineDown, stopped, policy,
                   applyPolicy, conv>>

\* case !bgpShouldStart && t.bgpStarted: StopBgp, then the reset
ReconcileStop(ok) ==
    /\ pc["recon"] = "mut"
    /\ ~bgpShouldStart(intended) /\ bgpStarted
    /\ entry' = Entered
    /\ calls' = <<[op |-> "StopBgp", ok |-> ok]>>
    /\ IF ok
          THEN /\ bgpStarted' = FALSE
               /\ currentConfig' = Ptr(EmptyConfig)
               /\ appliedBGP' = StoppedBgp(appliedBGP)
               /\ left' = Trees(appliedBGP', appliedRoutingPolicy)
               /\ lastGood' = Ptr(EmptyConfig)
               /\ uncommitted' = FALSE
               /\ mutErr' = [mutErr EXCEPT !["recon"] = NoErr]
               /\ pc' = [pc EXCEPT !["recon"] = AfterMutator(NoErr)]
          ELSE /\ mutErr' = [mutErr EXCEPT !["recon"] = StopErr]
               /\ pc' = [pc EXCEPT !["recon"] = AfterMutator(StopErr)]
               /\ UNCHANGED <<bgpStarted, currentConfig, appliedBGP, lastGood, uncommitted,
                              left>>
    /\ UNCHANGED <<appliedStateMu, appliedRoutingPolicy, store, sent, ret, intended, newConfig,
                   todo, repeat, ps, nlist, engineRib, engineDown, stopped, policy,
                   applyPolicy, conv>>

\* mutation: the waiting pass clears the snapshot
ReconcileWaitResets ==
    /\ pc["recon"] = "mut"
    /\ ~bgpShouldStart(intended) /\ ~bgpStarted
    /\ left' = Trees(appliedBGP, appliedRoutingPolicy)
    /\ entry' = Entered
    /\ calls' = <<>>
    /\ currentConfig' = Ptr(EmptyConfig)
    /\ mutErr' = [mutErr EXCEPT !["recon"] = NoErr]
    /\ pc' = [pc EXCEPT !["recon"] = AfterMutator(NoErr)]
    /\ UNCHANGED <<appliedStateMu, bgpStarted, appliedBGP, appliedRoutingPolicy, store, sent,
                   ret, intended, newConfig, todo, repeat, lastGood, uncommitted, ps,
                   nlist, engineRib, engineDown, stopped, policy, applyPolicy, conv>>

\* default: waiting for BGP to be startable
ReconcileWait ==
    /\ pc["recon"] = "mut"
    /\ ~bgpShouldStart(intended) /\ ~bgpStarted
    /\ left' = Trees(appliedBGP, appliedRoutingPolicy)
    /\ entry' = Entered
    /\ calls' = <<>>
    /\ mutErr' = [mutErr EXCEPT !["recon"] = NoErr]
    /\ pc' = [pc EXCEPT !["recon"] = AfterMutator(NoErr)]
    /\ UNCHANGED <<appliedStateMu, bgpStarted, currentConfig, appliedBGP, appliedRoutingPolicy,
                   store, sent, ret, intended, newConfig, todo, repeat, lastGood,
                   uncommitted, ps, nlist, engineRib, engineDown, stopped, policy,
                   applyPolicy, conv>>

-----------------------------------------------------------------------------
(* Policy conversion. Names are Go strings, modelled as sequences of characters. *)

\* policy and statement names: 1..MaxNameLen characters, letters and the two
\* separator characters
NameChars == {"p", "|", ":"}
PolicyNames == UNION {[1..k -> NameChars] : k \in 1..MaxNameLen}

\* neighbour addresses: 10.0.0.1, 10.0.0.11 and ::1
PolicyNeighAddrs ==
    {<<"1", "0", ".", "0", ".", "0", ".", "1">>,
     <<"1", "0", ".", "0", ".", "0", ".", "1", "1">>,
     <<":", ":", "1">>}

\* the policy definitions handed to the conversion, with one statement each
PolicyDefinitions == [name : PolicyNames, statements : [{1} -> PolicyNames]]

\* mutation: the policy name is not qualified by the neighbour
convertPolicyNameUnqualified(neighAddr, ocPolicyName) == <<"|">> \o ocPolicyName

\* neighAddr + "|" + ocPolicyName
convertPolicyName(neighAddr, ocPolicyName) == neighAddr \o <<"|">> \o ocPolicyName

\* Name: convertedPolicyName + ":" + statement.GetName()
StatementName(convertedPolicyName, statementName) ==
    convertedPolicyName \o <<":">> \o statementName

\* the names and the neighbour set of the converted definition
convertPolicyDefinition(pol, neighAddr) ==
    LET convertedPolicyName == convertPolicyName(neighAddr, pol.name)
    IN [name |-> convertedPolicyName,
        statements |->
            [i \in DOMAIN pol.statements |->
                [name |-> StatementName(convertedPolicyName, pol.statements[i]),
                 neighborSet |-> neighAddr]]]

NoPolicy ==
    [done |-> FALSE,
     neighAddr |-> <<>>,
     definition |-> [name |-> <<>>, statements |-> <<>>],
     converted |-> [name |-> <<>>, statements |-> <<>>]]

\* one call of convertPolicyDefinition
ConvertPolicyDefinition(pol, neighAddr) ==
    /\ ~policy.done
    /\ policy' = [done |-> TRUE,
                  neighAddr |-> neighAddr,
                  definition |-> pol,
                  converted |-> convertPolicyDefinition(pol, neighAddr)]
    /\ UNCHANGED <<appliedStateMu, pc, bgpStarted, currentConfig, appliedBGP,
                   appliedRoutingPolicy, store, sent, mutErr, ret, intended, newConfig,
                   todo, calls, entry, repeat, lastGood, uncommitted, left, ps, nlist,
                   engineRib, engineDown, stopped, applyPolicy, conv>>

\* oc.E_RoutingPolicy_DefaultPolicyType: unset, the two values of the schema, and a
\* value outside it
DefaultPolicyTypes == {"UNSET", "ACCEPT_ROUTE", "REJECT_ROUTE", "3"}

\* mutation: an unset or unknown default policy accepts
convertDefaultPolicyAccepts(ocpolicy) ==
    CASE ocpolicy = "REJECT_ROUTE" -> "reject-route"
      [] ocpolicy = "ACCEPT_ROUTE" -> "accept-route"
      [] OTHER -> "accept-route"

convertDefaultPolicy(ocpolicy) ==
    CASE ocpolicy = "REJECT_ROUTE" -> "reject-route"
      [] ocpolicy = "ACCEPT_ROUTE" -> "accept-route"
      [] OTHER -> "reject-route"

\* neigh.ApplyPolicy: nil, or the container with its two default policies
ApplyPolicies ==
    {NilPtr} \cup
    {Ptr(ap) : ap \in [defaultImportPolicy : DefaultPolicyTypes,
                       defaultExportPolicy : DefaultPolicyTypes,
                       importPolicy : {<<>>}, exportPolicy : {<<>>}]}

\* neigh.GetApplyPolicy().GetX(): the field, or its zero value under a nil container
GetApplyPolicy(ap) ==
    IF IsNil(ap)
    THEN [defaultImportPolicy |-> "UNSET", defaultExportPolicy |-> "UNSET",
          importPolicy |-> <<>>, exportPolicy |-> <<>>]
    ELSE ap[1]

convertNeighborApplyPolicy(ap) ==
    [defaultImportPolicy |-> convertDefaultPolicy(GetApplyPolicy(ap).defaultImportPolicy),
     defaultExportPolicy |-> convertDefaultPolicy(GetApplyPolicy(ap).defaultExportPolicy),
     importPolicyList |-> GetApplyPolicy(ap).importPolicy,
     exportPolicyList |-> GetApplyPolicy(ap).exportPolicy]

NoApplyPolicy == [done |-> FALSE, neigh |-> NilPtr, converted |-> convertNeighborApplyPolicy(NilPtr)]

\* one call of convertNeighborApplyPolicy
ConvertNeighborApplyPolicy(ap) ==
    /\ ~applyPolicy.done
    /\ applyPolicy' = [done |-> TRUE, neigh |-> ap, converted |-> convertNeighborApplyPolicy(ap)]
    /\ UNCHANGED <<appliedStateMu, pc, bgpStarted, currentConfig, appliedBGP,
                   appliedRoutingPolicy, store, sent, mutErr, ret, intended, newConfig,
                   todo, calls, entry, repeat, lastGood, uncommitted, left, ps, nlist,
                   engineRib, engineDown, stopped, policy, conv>>

-----------------------------------------------------------------------------
(* Conversion of communities and of the defined sets *)

\* a community of a community set: oc.UnionString, oc.UnionUint32 or
\* oc.E_BgpTypes_BGP_WELL_KNOWN_STD_COMMUNITY (with its unset value)
CommunityNumbers == {0, 1, 65536, 65537, 6553800, 2147483647}
WellKnownCommunities == {"UNSET", "NO_EXPORT", "NO_ADVERTISE", "NO_EXPORT_SUBCONFED", "NOPEER"}
Communities ==
    [type : {"UnionString"}, str : {"100:200", "no-export"}, num : {0}]
    \cup [type : {"UnionUint32"}, str : {""}, num : CommunityNumbers]
    \cup [type : {"E_BgpTypes_BGP_WELL_KNOWN_STD_COMMUNITY"}, str : WellKnownCommunities, num : {0}]

\* the UnionUint32 case calls uint32ToCommunityString and drops what it returns, so
\* control leaves the switch and reaches the final return
convertCommunity(community) ==
    CASE community.type = "UnionString" -> community.str
      [] community.type = "UnionUint32" -> ""
      [] community.type = "E_BgpTypes_BGP_WELL_KNOWN_STD_COMMUNITY" ->
            CASE community.str = "NO_EXPORT" -> "65535:65281"
              [] community.str = "NO_ADVERTISE" -> "65535:65282"
              [] community.str = "NO_EXPORT_SUBCONFED" -> "65535:65283"
              [] community.str = "NOPEER" -> "65535:65284"
              [] OTHER -> ""

\* fmt.Sprintf("%d:%d", y>>16, y&0x0000ffff)
convertCommunityOC(y) == ToString(y \div 65536) \o ":" \o ToString(y % 65536)

\* names of defined sets, as Go strings: sequences of bytes
CharCode == [c \in {"B", "a", "b"} |-> CASE c = "B" -> 66 [] c = "a" -> 97 [] c = "b" -> 98]
SetNames == {<<"B">>, <<"a">>, <<"a", "b">>, <<"b">>}

\* the maps of defined sets: at most MaxSets names, each with one of the values
SetMaps(values) ==
    UNION {[D -> values] : D \in {X \in SUBSET SetNames : Cardinality(X) <= MaxSets}}

\* a < b for Go strings
RECURSIVE StringLess(_, _)
StringLess(a, b) ==
    IF b = <<>> THEN FALSE
    ELSE IF a = <<>> THEN TRUE
    ELSE IF Head(a) = Head(b) THEN StringLess(Tail(a), Tail(b))
    ELSE CharCode[Head(a)] < CharCode[Head(b)]

RECURSIVE SortInsert(_, _)
SortInsert(x, s) ==
    IF s = <<>> THEN <<x>>
    ELSE IF StringLess(x, Head(s)) THEN <<x>> \o s
    ELSE <<Head(s)>> \o SortInsert(x, Tail(s))

\* slices.Sort
RECURSIVE SlicesSort(_)
SlicesSort(s) == IF s = <<>> THEN <<>> ELSE SortInsert(Head(s), SlicesSort(Tail(s)))

\* the community sets of the intended config
CommunityMemberLists ==
    {<<>>,
     <<[type |-> "E_BgpTypes_BGP_WELL_KNOWN_STD_COMMUNITY", str |-> "NO_EXPORT", num |-> 0]>>,
     <<[type |-> "UnionString", str |-> "100:200", num |-> 0],
       [type |-> "UnionUint32", str |-> "", num |-> 65537]>>}
CommunitySets == SetMaps(CommunityMemberLists)

\* keys: lemmingutil.Mapkeys(occommset), the keys in the order the map yields them
convertCommunitySet(occommset, keys) ==
    LET commNames == SlicesSort(keys)
    IN [commsets |->
            [i \in 1..Len(commNames) |->
                [communitySetName |-> commNames[i],
                 communityList |->
                    [k \in DOMAIN occommset[commNames[i]] |->
                        convertCommunity(occommset[commNames[i]][k])]]],
        indexMap |->
            [n \in DOMAIN occommset |->
                (CHOOSE i \in 1..Len(commNames) : commNames[i] = n) - 1]]

\* the prefixes of a prefix set: a map keyed by (ip-prefix, masklength-range)
Prefixes ==
    {[ipPrefix |-> "10.33.0.0/16", masklengthRange |-> "exact"],
     [ipPrefix |-> "10.33.0.0/16", masklengthRange |-> ""],
     [ipPrefix |-> "10.34.0.0/16", masklengthRange |-> "16..23"]}
\* the prefix sets of the intended config: empty, the set of the prefix-set test,
\* the same with the empty range in place of "exact", and both forms of one prefix
PrefixSetValues ==
    {{},
     {p \in Prefixes : p.masklengthRange # ""},
     {p \in Prefixes : p.masklengthRange # "exact"},
     {p \in Prefixes : p.ipPrefix = "10.33.0.0/16"}}
PrefixSets == SetMaps(PrefixSetValues)

\* every order in which the range loops may visit the prefixes of each set
PrefixOrders(ocprefixsets) ==
    {f \in [DOMAIN ocprefixsets -> UNION {Orders(ocprefixsets[n]) : n \in DOMAIN ocprefixsets}] :
        \A n \in DOMAIN ocprefixsets : f[n] \in Orders(ocprefixsets[n])}

\* mutation: the sentinel is handed to the engine as it is
MasklengthRangeKept(r) == r

\* r := prefix.GetMasklengthRange(); if r == "exact" { r = "" }
MasklengthRange(r) == IF r = "exact" THEN "" ELSE r

\* keys: lemmingutil.Mapkeys(ocprefixsets); prefixOrder: the order in which the
\* range over each set's Prefix map visits it
convertPrefixSets(ocprefixsets, keys, prefixOrder) ==
    LET prefixSetNames == SlicesSort(keys)
    IN [i \in 1..Len(prefixSetNames) |->
            [prefixSetName |-> prefixSetNames[i],
             prefixList |->
                [k \in DOMAIN prefixOrder[prefixSetNames[i]] |->
                    [ipPrefix |-> prefixOrder[prefixSetNames[i]][k].ipPrefix,
                     masklengthRange |->
                        MasklengthRange(prefixOrder[prefixSetNames[i]][k].masklengthRange)]]]]

\* the AS-path sets of the intended config
AsPathSets == SetMaps({<<>>, <<"^65001">>})

\* order: the order in which the range over ocpathset visits the map
convertASPathSets(ocpathset, order) ==
    [i \in 1..Len(order) |->
        [asPathSetName |-> order[i], asPathList |-> ocpathset[order[i]]]]

NoConv == [fn |-> "none", in |-> <<>>, out |-> <<>>, again |-> NilPtr]

\* one call of intendedToGoBGP
IntendedToGoBGP(bgpoc, order) ==
    /\ conv.fn = "none"
    /\ conv' = [fn |-> "intendedToGoBGP", in |-> bgpoc,
                out |-> intendedToGoBGP(bgpoc, order, ZapiURL, ListenPort), again |-> NilPtr]
    /\ UNCHANGED <<appliedStateMu, pc, bgpStarted, currentConfig, appliedBGP,
                   appliedRoutingPolicy, store, sent, mutErr, ret, intended, newConfig,
                   todo, calls, entry, repeat, lastGood, uncommitted, left, ps, nlist,
                   engineRib, engineDown, stopped, policy, applyPolicy>>

\* one call of convertCommunity
ConvertCommunity(community) ==
    /\ conv.fn = "none"
    /\ conv' = [fn |-> "convertCommunity", in |-> community,
                out |-> convertCommunity(community), again |-> NilPtr]
    /\ UNCHANGED <<appliedStateMu, pc, bgpStarted, currentConfig, appliedBGP,
                   appliedRoutingPolicy, store, sent, mutErr, ret, intended, newConfig,
                   todo, calls, entry, repeat, lastGood, uncommitted, left, ps, nlist,
                   engineRib, engineDown, stopped, policy, applyPolicy>>

\* one call of convertCommunityOC
ConvertCommunityOC(y) ==
    /\ conv.fn = "none"
    /\ conv' = [fn |-> "convertCommunityOC", in |-> y,
                out |-> convertCommunityOC(y), again |-> NilPtr]
    /\ UNCHANGED <<appliedStateMu, pc, bgpStarted, currentConfig, appliedBGP,
                   appliedRoutingPolicy, store, sent, mutErr, ret, intended, newConfig,
                   todo, calls, entry, repeat, lastGood, uncommitted, left, ps, nlist,
                   engineRib, engineDown, stopped, policy, applyPolicy>>

\* one call of convertCommunitySet
ConvertCommunitySet(occommset, keys) ==
    /\ conv.fn = "none"
    /\ conv' = [fn |-> "convertCommunitySet", in |-> occommset,
                out |-> convertCommunitySet(occommset, keys), again |-> NilPtr]
    /\ UNCHANGED <<appliedStateMu, pc, bgpStarted, currentConfig, appliedBGP,
                   appliedRoutingPolicy, store, sent, mutErr, ret, intended, newConfig,
                   todo, calls, entry, repeat, lastGood, uncommitted, left, ps, nlist,
                   engineRib, engineDown, stopped, policy, applyPolicy>>

\* one call of convertPrefixSets
ConvertPrefixSets(ocprefixsets, keys, prefixOrder) ==
    /\ conv.fn = "none"
    /\ conv' = [fn |-> "convertPrefixSets", in |-> ocprefixsets,
                out |-> convertPrefixSets(ocprefixsets, keys, prefixOrder), again |-> NilPtr]
    /\ UNCHANGED <<appliedStateMu, pc, bgpStarted, currentConfig, appliedBGP,
                   appliedRoutingPolicy, store, sent, mutErr, ret, intended, newConfig,
                   todo, calls, entry, repeat, lastGood, uncommitted, left, ps, nlist,
                   engineRib, engineDown, stopped, policy, applyPolicy>>

\* one call of convertASPathSets
ConvertASPathSets(ocpathset, order) ==
    /\ conv.fn = "none"
    /\ conv' = [fn |-> "convertASPathSets", in |-> ocpathset,
                out |-> convertASPathSets(ocpathset, order), again |-> NilPtr]
    /\ UNCHANGED <<appliedStateMu, pc, bgpStarted, currentConfig, appliedBGP,
                   appliedRoutingPolicy, store, sent, mutErr, ret, intended, newConfig,
                   todo, calls, entry, repeat, lastGood, uncommitted, left, ps, nlist,
                   engineRib, engineDown, stopped, policy, applyPolicy>>

\* the same intended sets are translated a second time
ConvertCommunitySetAgain ==
    /\ conv.fn = "convertCommunitySet"
    /\ IsNil(conv.again)
    /\ \E keys \in Orders(DOMAIN conv.in) :
            conv' = [conv EXCEPT !.again = Ptr(convertCommunitySet(conv.in, keys))]
    /\ UNCHANGED <<appliedStateMu, pc, bgpStarted, currentConfig, appliedBGP,
                   appliedRoutingPolicy, store, sent, mutErr, ret, intended, newConfig,
                   todo, calls, entry, repeat, lastGood, uncommitted, left, ps, nlist,
                   engineRib, engineDown, stopped, policy, applyPolicy>>

ConvertPrefixSetsAgain ==
    /\ conv.fn = "convertPrefixSets"
    /\ IsNil(conv.again)
    /\ \E keys \in Orders(DOMAIN conv.in), prefixOrder \in PrefixOrders(conv.in) :
            conv' = [conv EXCEPT !.again = Ptr(convertPrefixSets(conv.in, keys, prefixOrder))]
    /\ UNCHANGED <<appliedStateMu, pc, bgpStarted, currentConfig, appliedBGP,
                   appliedRoutingPolicy, store, sent, mutErr, ret, intended, newConfig,
                   todo, calls, entry, repeat, lastGood, uncommitted, left, ps, nlist,
                   engineRib, engineDown, stopped, policy, applyPolicy>>

ConvertASPathSetsAgain ==
    /\ conv.fn = "convertASPathSets"
    /\ IsNil(conv.again)
    /\ \E order \in Orders(DOMAIN conv.in) :
            conv' = [conv EXCEPT !.again = Ptr(convertASPathSets(conv.in, order))]
    /\ UNCHANGED <<appliedStateMu, pc, bgpStarted, currentConfig, appliedBGP,
                   appliedRoutingPolicy, store, sent, mutErr, ret, intended, newConfig,
                   todo, calls, entry, repeat, lastGood, uncommitted, left, ps, nlist,
                   engineRib, engineDown, stopped, policy, applyPolicy>>

-----------------------------------------------------------------------------
(* The system *)

\* the engine's tables while the lifecycle is exercised
SteadyRib ==
    [local |-> <<[prefix |-> "10.33.0.0/16",
                  paths |-> <<[sourceId |-> "", neighborIp |-> "", filtered |-> FALSE]>>]>>,
     adjIn |-> EmptyMap,
     adjOut |-> EmptyMap]

\* newBgpDeclTask, then startGoBGPFuncDecl up to the start of the watch
Init ==
    /\ appliedStateMu = "free"
    /\ pc = [t \in Tasks |-> "idle"]
    /\ bgpStarted = FALSE
    /\ currentConfig = Ptr(EmptyConfig)
    /\ appliedBGP = DefaultBgp
    /\ appliedRoutingPolicy = DefaultRoutingPolicy
    /\ store = [bgp |-> NilPtr, rp |-> NilPtr]
    /\ sent = NoneSent
    /\ mutErr = [t \in Tasks |-> NoErr]
    /\ ret = [t \in Tasks |-> NotCalled]
    /\ intended = [as |-> NilPtr, routerId |-> NilPtr, neighbor |-> EmptyMap]
    /\ newConfig = EmptyConfig
    /\ todo = <<>>
    /\ calls = <<>>
    /\ entry = NoEntry
    /\ repeat = FALSE
    /\ lastGood = Ptr(EmptyConfig)
    /\ uncommitted = FALSE
    /\ left = NilPtr
    /\ ps = NoPeerState
    /\ nlist = <<>>
    /\ engineRib = SteadyRib
    /\ engineDown = {}
    /\ stopped = FALSE
    /\ policy = NoPolicy
    /\ applyPolicy = NoApplyPolicy
    /\ conv = NoConv

\* the snapshots the watch delivers: every neighbour map when BGP is startable,
\* and the three ways of not being startable
LifecycleConfigs ==
    {c \in IntendedConfigs : bgpShouldStart(c) \/ c.neighbor = EmptyMap}

\* the snapshots delivered while all three writers run: AS set, router-id set or
\* not, no neighbour or both neighbours
FunnelConfigs ==
    {c \in LifecycleConfigs :
        /\ ~IsNil(c.as)
        /\ Cardinality(DOMAIN c.neighbor) # 1
        /\ \A a \in DOMAIN c.neighbor : c.neighbor[a].peerAs = 1}

FunnelEvents == {"10.0.0.1"} \X {"ESTABLISHED"}

Next ==
    \/ \E t \in Tasks : Lock(t)
    \/ \E t \in Tasks : PublishBGP(t)
    \/ \E t \in Tasks : PublishRP(t)
    \/ \E t \in Tasks : Unlock(t)
    \/ \E e \in FunnelEvents : PeerEvent(e[1], e[2])
    \/ PeerEventMutate
    \/ Tick
    \/ \E ok \in BOOLEAN : PollLocal(ok)
    \/ \E ok \in BOOLEAN : PollAdjIn(ok)
    \/ \E ok \in BOOLEAN : PollAdjOut(ok)
    \/ PollDone
    \/ \E cfg \in FunnelConfigs : Deliver(cfg)
    \/ ReconcileStart
    \/ ReconcileUpdate
    \/ \E ok \in BOOLEAN : EngineCall(ok)
    \/ ReconcileDone
    \/ \E ok \in BOOLEAN : ReconcileStop(ok)
    \/ ReconcileWait

Spec == Init /\ [][Next]_vars

NextRecon ==
    \/ \E t \in {"recon", "poll"} : Lock(t)
    \/ \E t \in {"recon", "poll"} : PublishBGP(t)
    \/ \E t \in {"recon", "poll"} : PublishRP(t)
    \/ \E t \in {"recon", "poll"} : Unlock(t)
    \/ Tick
    \/ \E ok \in BOOLEAN : PollLocal(ok)
    \/ \E ok \in BOOLEAN : PollAdjIn(ok)
    \/ \E ok \in BOOLEAN : PollAdjOut(ok)
    \/ PollDone
    \/ \E cfg \in LifecycleConfigs : Deliver(cfg)
    \/ ReconcileStart
    \/ ReconcileUpdate
    \/ \E ok \in BOOLEAN : EngineCall(ok)
    \/ ReconcileDone
    \/ \E ok \in BOOLEAN : ReconcileStop(ok)
    \/ ReconcileWait

\* the snapshots delivered while fairness is examined: AS set, router-id set or
\* not, no neighbour
FairConfigs == {c \in FunnelConfigs : c.neighbor = EmptyMap}

\* the three writers, with a start, an update or a stop that may fail and queries
\* that may fail
NextFair ==
    \/ \E t \in Tasks : Lock(t)
    \/ \E t \in Tasks : PublishBGP(t)
    \/ \E t \in Tasks : PublishRP(t)
    \/ \E t \in Tasks : Unlock(t)
    \/ \E e \in FunnelEvents : PeerEvent(e[1], e[2])
    \/ PeerEventMutate
    \/ Tick
    \/ \E ok \in BOOLEAN : PollLocal(ok)
    \/ \E ok \in BOOLEAN : PollAdjIn(ok)
    \/ \E ok \in BOOLEAN : PollAdjOut(ok)
    \/ PollDone
    \/ \E cfg \in FairConfigs : Deliver(cfg)
    \/ ReconcileStart
    \/ ReconcileUpdate
    \/ \E ok \in BOOLEAN : EngineCall(ok)
    \/ ReconcileDone
    \/ \E ok \in BOOLEAN : ReconcileStop(ok)
    \/ ReconcileWait

\* a step of the call that holds the lock: its mutator, its two Replace requests
\* and its return
Inside ==
    \/ \E t \in Tasks : PublishBGP(t)
    \/ \E t \in Tasks : PublishRP(t)
    \/ \E t \in Tasks : Unlock(t)
    \/ PeerEventMutate
    \/ \E ok \in BOOLEAN : PollLocal(ok)
    \/ \E ok \in BOOLEAN : PollAdjIn(ok)
    \/ \E ok \in BOOLEAN : PollAdjOut(ok)
    \/ PollDone
    \/ ReconcileStart
    \/ ReconcileUpdate
    \/ \E ok \in BOOLEAN : EngineCall(ok)
    \/ ReconcileDone
    \/ \E ok \in BOOLEAN : ReconcileStop(ok)
    \/ ReconcileWait

\* the three writers under fair scheduling: the goroutine that holds the lock keeps
\* running (every mutator terminates), and a goroutine blocked in Lock is not
\* passed over for ever (sync.Mutex hands the lock to a starving waiter)
SpecFair ==
    /\ Init /\ [][NextFair]_vars
    /\ WF_vars(Inside)
    /\ \A t \in Tasks : SF_vars(Lock(t))

SpecRecon == Init /\ [][NextRecon]_vars

\* the session-event callback alone, with every state the engine may report
NextEvents ==
    \/ Lock("event")
    \/ PublishBGP("event")
    \/ PublishRP("event")
    \/ Unlock("event")
    \/ \E addr \in NeighAddrs, st \in EngineSessionStates : PeerEvent(addr, st)
    \/ PeerEventMutate

SpecEvents == Init /\ [][NextEvents]_vars

\* the poller against an engine whose tables move and whose queries may fail, with
\* the session events that put the neighbour into the applied tree
NextRib ==
    \/ \E t \in {"poll", "event"} : Lock(t)
    \/ \E t \in {"poll", "event"} : PublishBGP(t)
    \/ \E t \in {"poll", "event"} : PublishRP(t)
    \/ \E t \in {"poll", "event"} : Unlock(t)
    \/ \E e \in FunnelEvents : PeerEvent(e[1], e[2])
    \/ PeerEventMutate
    \/ \E rib \in EngineRibs, down \in SUBSET RibTables : EngineChange(rib, down)
    \/ Tick
    \/ PollLocal("LOCAL" \notin engineDown)
    \/ PollAdjIn("adjIn" \notin engineDown)
    \/ PollAdjOut("adjOut" \notin engineDown)
    \/ PollDone

SpecRib == Init /\ [][NextRib]_vars

\* the poller against an engine whose local table moves between ticks and whose
\* local-table query may fail
NextLocRib ==
    \/ Lock("poll")
    \/ PublishBGP("poll")
    \/ PublishRP("poll")
    \/ Unlock("poll")
    \/ \E l \in LocalListings, down \in SUBSET {"LOCAL"} :
            EngineChange([local |-> l, adjIn |-> EmptyMap, adjOut |-> EmptyMap], down)
    \/ Tick
    \/ PollLocal("LOCAL" \notin engineDown)
    \/ PollDone

SpecLocRib == Init /\ [][NextLocRib]_vars

\* the reconciler and the poller of a process on which stop may be called; what
\* the halted engine answers to a call or a query is left open
NextStop ==
    \/ NextRecon
    \/ Stop

SpecStop == Init /\ [][NextStop]_vars

\* the policy conversion functions applied to every input
NextPolicy ==
    \/ \E pol \in PolicyDefinitions, a \in PolicyNeighAddrs : ConvertPolicyDefinition(pol, a)
    \/ \E ap \in ApplyPolicies : ConvertNeighborApplyPolicy(ap)

SpecPolicy == Init /\ [][NextPolicy]_vars

\* the community and defined-set conversions applied to every input, each set
\* conversion twice with the map iteration orders left open
NextSets ==
    \/ \E community \in Communities : ConvertCommunity(community)
    \/ \E y \in CommunityNumbers : ConvertCommunityOC(y)
    \/ \E m \in CommunitySets : \E keys \in Orders(DOMAIN m) : ConvertCommunitySet(m, keys)
    \/ \E m \in PrefixSets : \E keys \in Orders(DOMAIN m) :
            \E po \in PrefixOrders(m) : ConvertPrefixSets(m, keys, po)
    \/ \E m \in AsPathSets : \E order \in Orders(DOMAIN m) : ConvertASPathSets(m, order)
    \/ ConvertCommunitySetAgain
    \/ ConvertPrefixSetsAgain
    \/ ConvertASPathSetsAgain

SpecSets == Init /\ [][NextSets]_vars

\* the config translation applied to every intended BGP container
NextTranslate ==
    \E bgpoc \in TranslateConfigs : \E order \in Orders(DOMAIN bgpoc.neighbor) :
        IntendedToGoBGP(bgpoc, order)

SpecTranslate == Init /\ [][NextTranslate]_vars

-----------------------------------------------------------------------------
(* Properties *)

\* between Lock and Unlock of updateAppliedState
InCS(t) == pc[t] \in {"mut", "calls", "adjin", "adjout", "pubBGP", "pubRP", "unlock"}

\* the reconciliation pass has ended and its call has not yet returned
PassEnded == pc["recon"] = "unlock"

EngineFailed == calls # <<>> /\ ~calls[Len(calls)].ok

\* C1: at most one mutator is inside updateAppliedState's critical section at any
\* time, whatever the interleaving of the watch callback, the session-event
\* callback and the poller tick; the task inside holds the lock.
C1_MutualExclusion ==
    \A t1, t2 \in Tasks :
        InCS(t1) /\ InCS(t2) => t1 = t2 /\ appliedStateMu = t1

\* a poller mutator stopped half-way while the two other writers wait for the lock
C1_Witness ==
    /\ pc["poll"] = "adjout"
    /\ pc["recon"] = "lock"
    /\ pc["event"] = "lock"

\* C2: a call whose mutator returned nil publishes, with the lock still held and
\* with the trees exactly as the mutator left them, first the whole applied-BGP
\* tree and then the whole applied-routing-policy tree, before it returns.
C2_PublishAfterSuccess ==
    \A t \in Tasks :
        (pc[t] \in {"pubBGP", "pubRP"} \/ (pc[t] = "unlock" /\ mutErr[t] = NoErr)) =>
            /\ appliedStateMu = t
            /\ mutErr[t] = NoErr
            /\ left = Trees(appliedBGP, appliedRoutingPolicy)
            /\ pc[t] \in {"pubRP", "unlock"} =>
                  sent.bgp = Ptr(left[1].bgp) /\ store.bgp = Ptr(left[1].bgp)
            /\ pc[t] = "unlock" =>
                  sent.rp = Ptr(left[1].rp) /\ store.rp = Ptr(left[1].rp)

\* a successful reconciliation pass has published a tree that holds neighbours
C2_Witness ==
    /\ pc["recon"] = "unlock"
    /\ mutErr["recon"] = NoErr
    /\ DOMAIN appliedBGP.neighbor = NeighAddrs
    /\ store.bgp = Ptr(appliedBGP)

\* C3: a call whose mutator returned an error sends no Replace, returns that same
\* error, and has released the lock when it returns.
C3_ErrorNoPublish ==
    \A t \in Tasks :
        /\ (pc[t] = "unlock" /\ mutErr[t] # NoErr) => sent = NoneSent /\ IsNil(left)
        /\ (pc[t] = "idle" /\ ret[t] # NotCalled) => ret[t] = mutErr[t] /\ appliedStateMu # t

\* the watch callback's call has returned the stop error of its pass, nothing of
\* that pass is in the store, and the lock is free
C3_Witness ==
    /\ pc["recon"] = "idle"
    /\ ret["recon"] = StopErr
    /\ mutErr["recon"] = StopErr
    /\ bgpStarted
    /\ appliedStateMu = "free"

BothSet == ~IsNil(intended.as) /\ ~IsNil(intended.routerId)

\* C5: a pass entered NOT_STARTED ends STARTED exactly when the intended AS and
\* router-id are both set and InitialConfig returned no error; the snapshot is then
\* the config InitialConfig returned, which is the translation of the intended
\* config (its AS, its router-id, the listen port, its neighbours).
C5_StartIffSetAndOk ==
    (PassEnded /\ ~entry.started) =>
        /\ bgpStarted <=> (BothSet /\ mutErr["recon"] = NoErr)
        /\ bgpStarted =>
              /\ currentConfig = Ptr(newConfig)
              /\ currentConfig[1].global =
                    [as |-> intended.as[1], routerId |-> intended.routerId[1],
                     port |-> ListenPort]
              /\ AddrsOf(currentConfig[1].neighbors) = DOMAIN intended.neighbor
              /\ Len(currentConfig[1].neighbors) = Cardinality(DOMAIN intended.neighbor)

\* a start pass with AS 65001, router-id 1.1.1.1 and two neighbours has succeeded
C5_Witness ==
    /\ PassEnded /\ ~entry.started /\ bgpStarted
    /\ currentConfig[1].global.as = 65001
    /\ currentConfig[1].global.routerId = "1.1.1.1"
    /\ Len(currentConfig[1].neighbors) = 2

\* C6: when InitialConfig fails in a pass entered NOT_STARTED, the pass returns the
\* start error, bgpStarted stays false and the call sends no Replace.
C6_StartFailure ==
    /\ (PassEnded /\ ~entry.started /\ EngineFailed) =>
            /\ mutErr["recon"] = StartErr
            /\ ~bgpStarted
            /\ sent = NoneSent
    /\ (pc["recon"] = "idle" /\ ret["recon"] = StartErr) => ~bgpStarted

\* a start pass whose StartBgp succeeded and whose AddPeer failed is about to return
C6_Witness ==
    /\ PassEnded /\ ~entry.started
    /\ Len(calls) = 2 /\ calls[1].ok /\ ~calls[2].ok
    /\ mutErr["recon"] = StartErr

\* the pass called StopBgp and the call returned ok
StopCalled(ok) == calls = <<[op |-> "StopBgp", ok |-> ok]>>

\* C7: a pass entered STARTED with AS or router-id unset, whose StopBgp succeeds,
\* ends NOT_STARTED with the empty snapshot and the applied-BGP tree at its schema
\* defaults (no neighbour, no RIB of the previous run), and has published that tree.
C7_StopResets ==
    (PassEnded /\ StopCalled(TRUE)) =>
        /\ entry.started /\ ~BothSet
        /\ ~bgpStarted
        /\ currentConfig = Ptr(EmptyConfig)
        /\ appliedBGP = DefaultBgp
        /\ appliedBGP.neighbor = EmptyMap /\ IsNil(appliedBGP.rib)
        /\ mutErr["recon"] = NoErr
        /\ sent.bgp = Ptr(DefaultBgp)
        /\ store.bgp = Ptr(DefaultBgp)

\* the stopped run had neighbours and a polled RIB in the applied tree
C7_Witness ==
    /\ PassEnded /\ StopCalled(TRUE)
    /\ entry.bgp.neighbor # EmptyMap
    /\ ~IsNil(entry.bgp.rib)
    /\ store.bgp = Ptr(DefaultBgp)

\* C8: when StopBgp fails the pass returns the stop error, bgpStarted stays true,
\* the snapshot and the applied-BGP tree are as they were on entry and nothing is
\* sent; the next pass whose config still has AS or router-id unset calls StopBgp
\* again.
C8_StopFailure ==
    /\ (PassEnded /\ StopCalled(FALSE)) =>
            /\ mutErr["recon"] = StopErr
            /\ bgpStarted
            /\ currentConfig = entry.config
            /\ appliedBGP = entry.bgp
            /\ sent = NoneSent
    /\ (PassEnded /\ ret["recon"] = StopErr /\ ~BothSet) =>
            /\ entry.started
            /\ calls # <<>> /\ calls[1].op = "StopBgp"

\* the previous pass returned the stop error and this pass has stopped BGP
C8_Witness ==
    /\ PassEnded /\ ret["recon"] = StopErr
    /\ StopCalled(TRUE)
    /\ entry.bgp.neighbor # EmptyMap

\* C9 as claimed: when UpdateConfig fails the pass returns the update error and
\* the snapshot equals the one recorded by the last successful start or update.
C9_SnapshotLastKnownGood ==
    (PassEnded /\ entry.started /\ EngineFailed /\ ~StopCalled(FALSE)) =>
        /\ mutErr["recon"] = UpdateErr
        /\ currentConfig = lastGood

\* C10 as claimed: a pass given the same intended config as the previous,
\* successful pass leaves the snapshot identical and makes no engine call.
C10_Idempotent ==
    (PassEnded /\ repeat) =>
        /\ currentConfig = entry.config
        /\ calls = <<>>

\* C11: a pass entered NOT_STARTED whose intended config has AS or router-id unset
\* returns nil, makes no engine call, and leaves bgpStarted, the snapshot and the
\* applied-BGP tree as it found them.
C11_WaitIsNoOp ==
    (PassEnded /\ ~entry.started /\ ~BothSet) =>
        /\ mutErr["recon"] = NoErr
        /\ calls = <<>> /\ todo = <<>>
        /\ ~bgpStarted
        /\ currentConfig = entry.config
        /\ appliedBGP = entry.bgp

\* a waiting pass with the AS set and the router-id unset, after a start that failed
\* and left the tree changed and the snapshot nil
C11_Witness ==
    /\ PassEnded /\ ~entry.started
    /\ ~IsNil(intended.as) /\ IsNil(intended.routerId)
    /\ IsNil(currentConfig)
    /\ entry.bgp # DefaultBgp
    /\ mutErr["recon"] = NoErr

\* the session states the callback recognizes: UNKNOWN and the names of the local
\* enumeration
RecognizedStates == LocalSessionStates \cup {"UNKNOWN"}

\* C12 as claimed: a notification whose session state is not recognized changes
\* nothing in the applied-BGP tree: no neighbour record is created or changed.
C12_UnrecognizedNoMutation ==
    [][(pc["event"] = "mut" /\ ps.sessionState \notin RecognizedStates) =>
            appliedBGP' = appliedBGP]_vars

\* C13: the mutation for a notification (A, S) with S recognized leaves a record
\* for A, created if absent, whose session state is the local value named S, or
\* UNSET when S is UNKNOWN; A's other fields, every other neighbour's record and
\* the rest of the tree are unchanged.
C13_SessionStateMapped ==
    [][(pc["event"] = "mut" /\ pc'["event"] # "mut"
            /\ ps.sessionState \in RecognizedStates) =>
          LET a == ps.neighborAddress
              old == appliedBGP.neighbor
              new == appliedBGP'.neighbor
          IN /\ DOMAIN new = DOMAIN old \cup {a}
             /\ new[a].sessionState =
                    (IF ps.sessionState = "UNKNOWN" THEN "UNSET" ELSE ps.sessionState)
             /\ new[a].peerAs = (IF a \in DOMAIN old THEN old[a].peerAs ELSE 0)
             /\ \A b \in DOMAIN old \ {a} : new[b] = old[b]
             /\ appliedBGP'.global = appliedBGP.global
             /\ appliedBGP'.rib = appliedBGP.rib]_vars

\* UNKNOWN has been applied to a neighbour last published as ESTABLISHED, next to
\* another neighbour that is IDLE
C13_Witness ==
    /\ pc["event"] = "pubBGP"
    /\ DOMAIN appliedBGP.neighbor = NeighAddrs
    /\ appliedBGP.neighbor["10.0.0.2"].sessionState = "UNSET"
    /\ ~IsNil(store.bgp)
    /\ DOMAIN store.bgp[1].neighbor = NeighAddrs
    /\ store.bgp[1].neighbor["10.0.0.2"].sessionState = "ESTABLISHED"
    /\ appliedBGP.neighbor["10.0.0.1"].sessionState = "IDLE"

\* the (prefix, path id) keys of the paths of a listing, all or only the unfiltered
Keys(routes) == {<<routes[ij[1]].prefix, ij[2] - 1>> : ij \in PathIndexes(routes)}
UnfilteredKeys(routes) ==
    {<<routes[ij[1]].prefix, ij[2] - 1>> :
        ij \in {x \in PathIndexes(routes) : ~PathAt(routes, x).filtered}}

\* the adjacency tables the applied tree holds for a neighbour
RibOf(bgp, n) ==
    IF ~IsNil(bgp.rib) /\ n \in DOMAIN bgp.rib[1].neighbor
    THEN bgp.rib[1].neighbor[n]
    ELSE NewRibNeighbor

\* C14: in a tick, a query that fails leaves the whole RIB sub-tree with exactly
\* the content it had before the query; a query that succeeds in the same tick
\* still puts what the engine listed into its table; and the tick ends with the
\* mutator returning nil and the tree published.
C14_FailedQueryKeepsTable ==
    [][LET v4uni == GetOrCreateIpv4Unicast(appliedBGP)
           after == appliedBGP'.rib[1]
           n == Head(nlist)
       IN /\ (pc["poll"] = "mut" /\ pc'["poll"] = "adjin") =>
                 IF "LOCAL" \in engineDown
                 THEN after = v4uni
                 ELSE /\ after.locRib[1] =
                            {<<k[1], "UNSET", k[2]>> : k \in Keys(engineRib.local)}
                      /\ after.neighbor = v4uni.neighbor
          /\ (pc["poll"] = "adjin" /\ pc'["poll"] = "adjout") =>
                 IF "adjIn" \in engineDown
                 THEN after = v4uni
                 ELSE /\ after.locRib = v4uni.locRib
                      /\ Keys(TableOf("adjIn", n)) \subseteq RibOf(appliedBGP', n).adjRibInPre
                      /\ UnfilteredKeys(TableOf("adjIn", n))
                            \subseteq RibOf(appliedBGP', n).adjRibInPost
          /\ (pc["poll"] = "adjout" /\ pc'["poll"] = "adjin") =>
                 IF "adjOut" \in engineDown
                 THEN after = v4uni
                 ELSE /\ after.locRib = v4uni.locRib
                      /\ Keys(TableOf("adjOut", n)) \subseteq RibOf(appliedBGP', n).adjRibOutPre
                      /\ UnfilteredKeys(TableOf("adjOut", n))
                            \subseteq RibOf(appliedBGP', n).adjRibOutPost
          /\ (pc["poll"] = "adjin" /\ pc'["poll"] \notin {"adjin", "adjout"}) =>
                 /\ pc'["poll"] = "pubBGP"
                 /\ mutErr'["poll"] = NoErr
          /\ (pc["poll"] = "pubBGP" /\ pc'["poll"] # "pubBGP") =>
                 store'.bgp = Ptr(appliedBGP)]_vars

\* in one tick the local table has been refreshed from the engine while the failed
\* adj-rib-in query left the neighbour's tables as they were: the path the engine
\* now lists unfiltered is still missing from the post-policy table
C14_Witness ==
    /\ pc["poll"] = "adjout"
    /\ engineDown = {"adjIn"}
    /\ ~IsNil(store.bgp) /\ ~IsNil(store.bgp[1].rib)
    /\ appliedBGP.rib[1].locRib # store.bgp[1].rib[1].locRib
    /\ RibOf(appliedBGP, RibNeighbor).adjRibInPre # {}
    /\ RibOf(appliedBGP, RibNeighbor).adjRibInPost = {}
    /\ UnfilteredKeys(TableOf("adjIn", RibNeighbor)) # {}

\* C15 as claimed: when a tick whose queries all succeeded ends, each post-policy
\* adjacency table holds only paths the engine lists as not filtered, and each
\* pre-policy table holds every path the engine lists.
C15_PostOnlyUnfiltered ==
    (pc["poll"] = "unlock" /\ engineDown = {}) =>
        \A n \in DOMAIN appliedBGP.neighbor :
            /\ RibOf(appliedBGP, n).adjRibInPost \subseteq UnfilteredKeys(TableOf("adjIn", n))
            /\ RibOf(appliedBGP, n).adjRibOutPost \subseteq UnfilteredKeys(TableOf("adjOut", n))
            /\ Keys(TableOf("adjIn", n)) \subseteq RibOf(appliedBGP, n).adjRibInPre
            /\ Keys(TableOf("adjOut", n)) \subseteq RibOf(appliedBGP, n).adjRibOutPre

\* C16 as claimed: once stop has been called the poller begins no further tick, so
\* it makes no further engine query, mutation or publish.
C16_StopEndsPolling ==
    [][stopped => (pc["poll"] = "idle" => pc'["poll"] = "idle")]_vars

\* C17: no step of the poller or of the session-event callback starts or advances
\* a reconciliation pass, issues an engine start, update or stop, or changes
\* bgpStarted or the snapshot; engine calls are made only inside a pass, and a pass
\* begins only when the watch delivers a snapshot.
C17_NoAutomaticRetry ==
    [][/\ (pc'["poll"] # pc["poll"] \/ pc'["event"] # pc["event"]) =>
              /\ pc'["recon"] = pc["recon"]
              /\ bgpStarted' = bgpStarted
              /\ currentConfig' = currentConfig
              /\ calls' = calls /\ todo' = todo
       /\ (calls' # calls /\ calls' # <<>>) => pc["recon"] \in {"mut", "calls"}
       /\ (bgpStarted' # bgpStarted \/ currentConfig' # currentConfig) =>
              pc["recon"] \in {"mut", "calls"}]_vars

\* the start has failed and the intended config still asks for BGP; a poller tick
\* that began after the failure is about to return, and BGP is still not started
C17_Witness ==
    /\ pc["recon"] = "idle" /\ ret["recon"] = StartErr
    /\ BothSet /\ ~bgpStarted /\ uncommitted
    /\ pc["poll"] = "unlock"
    /\ store.bgp = Ptr(appliedBGP)
    /\ ret["event"] = NoErr

\* the pair a qualified policy name splits into at its first "|"
Unqualify(q) ==
    LET i == CHOOSE i \in 1..Len(q) : q[i] = "|" /\ \A j \in 1..(i - 1) : q[j] # "|"
    IN <<SubSeq(q, 1, i - 1), SubSeq(q, i + 1, Len(q))>>

\* C18: the qualified policy name of (neighbour, policy name) is the name of no
\* other pair, and the pair is recovered from it by splitting at the first "|".
C18_PolicyNameInvertible ==
    policy.done =>
        /\ Unqualify(policy.converted.name) = <<policy.neighAddr, policy.definition.name>>
        /\ \A a \in PolicyNeighAddrs, n \in PolicyNames :
              convertPolicyName(a, n) = policy.converted.name =>
                  a = policy.neighAddr /\ n = policy.definition.name

\* 10.0.0.1 has converted a policy whose name begins with "|"; 10.0.0.11, whose
\* address continues that of 10.0.0.1, has no policy with the same qualified name
C18_Witness ==
    /\ policy.done
    /\ policy.neighAddr = <<"1", "0", ".", "0", ".", "0", ".", "1">>
    /\ policy.definition.name = <<"|", "p">>
    /\ policy.converted.name = <<"1", "0", ".", "0", ".", "0", ".", "1", "|", "|", "p">>

\* C19 as claimed: the statement names emitted for two distinct (neighbour,
\* policy name, statement name) triples differ, also when the names contain ":"
\* or "|".
C19_StatementNamesUnique ==
    policy.done =>
        \A a \in PolicyNeighAddrs, pol \in PolicyDefinitions :
            convertPolicyDefinition(pol, a).statements[1].name
                    = policy.converted.statements[1].name =>
                a = policy.neighAddr /\ pol = policy.definition

\* C20: the converted default import and export policies are accept-route exactly
\* for the input ACCEPT_ROUTE and reject-route for every other input, unset and
\* out-of-schema values included.
C20_RejectByDefault ==
    applyPolicy.done =>
        LET in == GetApplyPolicy(applyPolicy.neigh)
            out == applyPolicy.converted
        IN /\ out.defaultImportPolicy =
                  (IF in.defaultImportPolicy = "ACCEPT_ROUTE" THEN "accept-route"
                   ELSE "reject-route")
           /\ out.defaultExportPolicy =
                  (IF in.defaultExportPolicy = "ACCEPT_ROUTE" THEN "accept-route"
                   ELSE "reject-route")

\* an out-of-schema import default and an unset export default both became reject
C20_Witness ==
    /\ applyPolicy.done
    /\ ~IsNil(applyPolicy.neigh)
    /\ applyPolicy.neigh[1].defaultImportPolicy = "3"
    /\ applyPolicy.neigh[1].defaultExportPolicy = "UNSET"
    /\ applyPolicy.converted.defaultImportPolicy = "reject-route"
    /\ applyPolicy.converted.defaultExportPolicy = "reject-route"

\* the fixed literal of each well-known community
WellKnownLiteral ==
    [c \in WellKnownCommunities \ {"UNSET"} |->
        CASE c = "NO_EXPORT" -> "65535:65281"
          [] c = "NO_ADVERTISE" -> "65535:65282"
          [] c = "NO_EXPORT_SUBCONFED" -> "65535:65283"
          [] c = "NOPEER" -> "65535:65284"]

\* C21: convertCommunity gives each well-known community its fixed literal, hands
\* an explicit string through unchanged, and gives every numeric community n the
\* text (n div 65536):(n mod 65536); convertCommunityOC gives a numeric community
\* of the engine the same text.
C21_CommunityTranslation ==
    /\ conv.fn = "convertCommunity" =>
        /\ (conv.in.type = "E_BgpTypes_BGP_WELL_KNOWN_STD_COMMUNITY"
                /\ conv.in.str \in DOMAIN WellKnownLiteral) =>
            conv.out = WellKnownLiteral[conv.in.str]
        /\ conv.in.type = "UnionString" => conv.out = conv.in.str
        /\ conv.in.type = "UnionUint32" =>
            conv.out = ToString(conv.in.num \div 65536) \o ":" \o ToString(conv.in.num % 65536)
    /\ conv.fn = "convertCommunityOC" =>
        conv.out = ToString(conv.in \div 65536) \o ":" \o ToString(conv.in % 65536)

\* a prefix set with the sentinel "exact" replaced by the empty string
Normalised(prefixes) ==
    {[ipPrefix |-> p.ipPrefix,
      masklengthRange |-> IF p.masklengthRange = "exact" THEN "" ELSE p.masklengthRange] :
        p \in prefixes}

\* the engine prefix set that came out under the name n
EnginePrefixSet(n) == conv.out[CHOOSE i \in DOMAIN conv.out : conv.out[i].prefixSetName = n]

\* C22: convertPrefixSets emits one engine set per intended prefix set, under the
\* same name, with one entry per intended prefix that carries the same ip-prefix
\* and the same range literal, except that "exact" becomes the empty string; an
\* intended prefix set that translates to the same engine set as another differs
\* from it only in "exact" against the empty string.
C22_PrefixSetsPreserved ==
    conv.fn = "convertPrefixSets" =>
        /\ Len(conv.out) = Cardinality(DOMAIN conv.in)
        /\ {conv.out[i].prefixSetName : i \in DOMAIN conv.out} = DOMAIN conv.in
        /\ \A n \in DOMAIN conv.in :
            /\ Len(EnginePrefixSet(n).prefixList) = Cardinality(conv.in[n])
            /\ Range(EnginePrefixSet(n).prefixList) = Normalised(conv.in[n])
            /\ \A q \in SUBSET Prefixes : \A po \in Orders(q) :
                LET other == convertPrefixSets([x \in {n} |-> q], <<n>>, [x \in {n} |-> po])[1]
                IN Range(other.prefixList) = Range(EnginePrefixSet(n).prefixList) =>
                        Normalised(q) = Normalised(conv.in[n])

\* the set {10.33.0.0/16 exact, 10.34.0.0/16 16..23} was translated to
\* {(10.33.0.0/16, ""), (10.34.0.0/16, "16..23")}
C22_Witness ==
    /\ conv.fn = "convertPrefixSets"
    /\ \E n \in DOMAIN conv.in :
        /\ conv.in[n] = {[ipPrefix |-> "10.33.0.0/16", masklengthRange |-> "exact"],
                         [ipPrefix |-> "10.34.0.0/16", masklengthRange |-> "16..23"]}
        /\ Range(EnginePrefixSet(n).prefixList) =
                {[ipPrefix |-> "10.33.0.0/16", masklengthRange |-> ""],
                 [ipPrefix |-> "10.34.0.0/16", masklengthRange |-> "16..23"]}

\* the names of a list of engine sets ascend
Ascending(names) == \A i \in 1..(Len(names) - 1) : StringLess(names[i], names[i + 1])

\* C23: a second translation of the same intended sets gives the same engine
\* sets in the same order with the same members in the same order, whatever the
\* order in which the maps are iterated; community sets and prefix sets come out
\* in ascending order of set name, and the index recorded for a community set
\* name is the position of the set of that name.
C23_Deterministic ==
    /\ ~IsNil(conv.again) => conv.again[1] = conv.out
    /\ conv.fn = "convertCommunitySet" =>
        /\ Ascending([i \in DOMAIN conv.out.commsets |-> conv.out.commsets[i].communitySetName])
        /\ \A n \in DOMAIN conv.in :
                conv.out.commsets[conv.out.indexMap[n] + 1].communitySetName = n
    /\ conv.fn = "convertPrefixSets" =>
        Ascending([i \in DOMAIN conv.out |-> conv.out[i].prefixSetName])

\* the router-ids of the model that are IP addresses and loopback addresses
LoopbackRouterIds == {"127.0.0.1", "127.1.2.3", "::1"}

\* C24: intendedToGoBGP emits exactly one engine neighbour per intended neighbour,
\* with peer-AS and neighbour address equal in its config and state parts, and
\* with the router-id as local transport address when the router-id is a loopback
\* IP address and the empty string when it is unset, not an address or not a
\* loopback.
C24_LocalAddressFromRouterId ==
    conv.fn = "intendedToGoBGP" =>
        /\ Len(conv.out.neighbors) = Cardinality(DOMAIN conv.in.neighbor)
        /\ AddrsOf(conv.out.neighbors) = DOMAIN conv.in.neighbor
        /\ \A i \in DOMAIN conv.out.neighbors :
            LET n == conv.out.neighbors[i]
            IN /\ n.config.peerAs = conv.in.neighbor[n.config.neighborAddress].peerAs
               /\ n.state = n.config
               /\ n.transport.localAddress =
                    (IF GetRouterId(conv.in) \in LoopbackRouterIds
                     THEN GetRouterId(conv.in) ELSE "")

\* both neighbours of a config with router-id 127.1.2.3 were given that address
C24_Witness ==
    /\ conv.fn = "intendedToGoBGP"
    /\ conv.in.routerId = Ptr("127.1.2.3")
    /\ Len(conv.out.neighbors) = 2
    /\ \A i \in 1..2 : conv.out.neighbors[i].transport.localAddress = "127.1.2.3"

\* the errors reconcile returns
ReconcileErrors == {StartErr, StopErr, UpdateErr}

\* C25: whenever the watch callback is not running, a failed pass behind it or
\* not, every snapshot can be delivered and its delivery enters updateAppliedState
\* with reconcile; whenever the poller is between two ticks, a failed query behind
\* it or not, the next tick can begin.
C25_FailureIsLocal ==
    /\ pc["recon"] = "idle" => \A cfg \in FunnelConfigs : ENABLED Deliver(cfg)
    /\ pc["poll"] = "idle" => ENABLED Tick
    /\ (pc["recon"] = "lock" /\ appliedStateMu = "free") => ENABLED Lock("recon")
    /\ (pc["poll"] = "lock" /\ appliedStateMu = "free") => ENABLED Lock("poll")

\* a snapshot delivered after a failed start waits for the lock, and the poller has
\* begun a tick after one in which the local-table query failed
C25_Witness ==
    /\ pc["recon"] = "lock" /\ ret["recon"] = StartErr
    /\ pc["poll"] = "lock" /\ ret["poll"] = NoErr
    /\ ~IsNil(appliedBGP.rib) /\ IsNil(appliedBGP.rib[1].locRib)

\* C26: in every state in which BGP is not started the Engine Config Snapshot is
\* the empty configuration.
C26_NotStartedSnapshotEmpty ==
    ~bgpStarted => currentConfig = Ptr(EmptyConfig)

\* one entry (prefix, origin, path index) per path of a listing of the local table
LocalEntries(routes) ==
    {<<routes[i].prefix,
       IF routes[i].paths[j].sourceId # "" THEN routes[i].paths[j].sourceId ELSE "UNSET",
       j - 1>> : <<i, j>> \in {ij \in (DOMAIN routes) \X (1..2) : ij[2] \in DOMAIN routes[ij[1]].paths}}

\* C27: from the successful local-table query of a tick to the end of that tick the
\* applied local RIB holds exactly one entry per (prefix, origin, path index) of
\* the paths the engine listed, the origin being the path's source identifier or
\* the unset value when that is empty, and nothing of earlier ticks; that is the
\* local RIB the tick publishes.
C27_LocalRibReplaced ==
    ("LOCAL" \notin engineDown) =>
        /\ pc["poll"] \in {"adjin", "adjout", "pubBGP", "pubRP", "unlock"} =>
                appliedBGP.rib[1].locRib = Ptr(LocalEntries(engineRib.local))
        /\ pc["poll"] \in {"pubRP", "unlock"} =>
                store.bgp[1].rib[1].locRib = Ptr(LocalEntries(engineRib.local))

\* the tick has replaced the local RIB published by an earlier tick: an entry of
\* that tick is gone, and the second path of 10.33.0.0/16, learned from the
\* neighbour, is in under index 1
C27_Witness ==
    /\ pc["poll"] = "pubBGP"
    /\ "LOCAL" \notin engineDown
    /\ ~IsNil(store.bgp) /\ ~IsNil(store.bgp[1].rib) /\ ~IsNil(store.bgp[1].rib[1].locRib)
    /\ store.bgp[1].rib[1].locRib[1] \ appliedBGP.rib[1].locRib[1] # {}
    /\ <<"10.33.0.0/16", RibNeighbor, 1>> \in appliedBGP.rib[1].locRib[1]
    /\ <<"10.33.0.0/16", "UNSET", 0>> \in appliedBGP.rib[1].locRib[1]

\* C28: a call of updateAppliedState that holds the lock releases it, after a
\* mutator error as after a success; no task waits for the lock it holds; and
\* under fair scheduling every task waiting in updateAppliedState comes to run its
\* mutator.
C28_EveryWaiterRuns ==
    /\ \A t \in Tasks : (pc[t] = "lock") ~> (pc[t] = "mut")
    /\ \A t \in Tasks : (appliedStateMu = t) ~> (appliedStateMu # t)
    /\ [](\A t \in Tasks : appliedStateMu = t => InCS(t))

\* all three writers are in updateAppliedState: the watch callback holds the lock
\* with a failed mutator behind it, the two others wait
C28_Witness ==
    /\ pc["recon"] = "unlock" /\ mutErr["recon"] # NoErr
    /\ pc["event"] = "lock"
    /\ pc["poll"] = "lock"

====
